---- MODULE Spec2Model ----
(***************************************************************************)
(* House of Agile email server (email_server.py): the request pipeline of  *)
(* EmailFormHandler served by a single-threaded HTTPServer.  One request   *)
(* is one traversal: handler construction (_load_email_config), do_POST /  *)
(* do_OPTIONS, _handle_form_submission (parse, validate, dispatch by mail  *)
(* or by log file), the JSON response and the top-level except handler.    *)
(*                                                                         *)
(* Python values: a str is a TLA+ string, None is PyNone, and a value that *)
(* may be either is wrapped (Str(s) / PyNone).  Text that int() parses is  *)
(* kept as a sequence of one-character strings so that the parse is        *)
(* computed digit by digit.                                                *)
(***************************************************************************)
EXTENDS Integers, Sequences, FiniteSets, TLC

(* ------------------------------ bounds -------------------------------- *)

\* Requests the single-threaded server accepts in one run.
MaxRequests == 1

\* Fields of one request body that differ from the plain filled-in form
\* (required field given once with a non-blank value, optional field absent).
MaxDeviant == 1

(* --------------------------- Python values ---------------------------- *)

PyNone == [isNone |-> TRUE]

Str(s) == [isNone |-> FALSE, s |-> s]

\* Python truthiness of an Optional[str]: `not v` is Falsy(v).
Truthy(v) == ~v.isNone /\ v.s # ""

Falsy(v) == ~Truthy(v)

Digits == <<"0", "1", "2", "3", "4", "5", "6", "7", "8", "9">>

IsDigit(c) == \E i \in 1..10 : Digits[i] = c

DigitVal(c) == (CHOOSE i \in 1..10 : Digits[i] = c) - 1

RECURSIVE DigitsVal(_)
DigitsVal(cs) ==
    IF cs = <<>> THEN 0
    ELSE DigitsVal(SubSeq(cs, 1, Len(cs) - 1)) * 10 + DigitVal(cs[Len(cs)])

\* int(text) on plain decimal text: the value, or ValueError for text that
\* is no number (the empty text included).
PyInt(cs) ==
    IF cs # <<>> /\ \A i \in 1..Len(cs) : IsDigit(cs[i])
    THEN [ok |-> TRUE, val |-> DigitsVal(cs)]
    ELSE [ok |-> FALSE, val |-> 0]

\* sep.join(parts)
RECURSIVE Join(_, _)
Join(parts, sep) ==
    IF parts = <<>> THEN ""
    ELSE IF Len(parts) = 1 THEN parts[1]
    ELSE parts[1] \o sep \o Join(Tail(parts), sep)

(* ------------------------ process environment ------------------------- *)

\* An environment variable is unset, or set to a text.
Unset == [set |-> FALSE, v |-> ""]

SetTo(v) == [set |-> TRUE, v |-> v]

UnsetNumber == [set |-> FALSE, v |-> <<>>]

\* os.getenv(name) and os.getenv(name, default)
GetEnv(e, name) == IF e[name].set THEN Str(e[name].v) ELSE PyNone

GetEnvDefault(e, name, default) == IF e[name].set THEN e[name].v ELSE default

DefaultServer == "smtp.gmail.com"

DefaultPort == <<"5", "8", "7">>

CredentialNames == {"SENDER_EMAIL", "SENDER_PASSWORD", "RECIPIENT_EMAIL"}

ExampleCredentials ==
    [ SENDER_EMAIL    |-> SetTo("noreply@houseofagile.com"),
      SENDER_PASSWORD |-> SetTo("abcd efgh ijkl mnop"),
      RECIPIENT_EMAIL |-> SetTo("jc@houseofagile.com") ]

\* The credentials all set, none set, or all but one set, the odd one being
\* unset or set to the empty text.
Credentials ==
    {ExampleCredentials, [n \in CredentialNames |-> Unset]}
    \cup { [ExampleCredentials EXCEPT ![n] = odd] :
             n \in CredentialNames, odd \in {Unset, SetTo("")} }

\* SMTP_PORT: unset, a number, or text that is no number.
PortTexts == {UnsetNumber, SetTo(<<"2", "5">>), SetTo(<<"a", "b", "c">>)}

EnvOf(port, creds) ==
    [ SMTP_SERVER     |-> Unset,
      SMTP_PORT       |-> port,
      SENDER_EMAIL    |-> creds["SENDER_EMAIL"],
      SENDER_PASSWORD |-> creds["SENDER_PASSWORD"],
      RECIPIENT_EMAIL |-> creds["RECIPIENT_EMAIL"] ]

\* A port set to a number is paired with the complete credentials only: the
\* port is not used unless mail is sent.
Environments ==
    { EnvOf(port, creds) : port \in PortTexts, creds \in {ExampleCredentials} }
    \cup { EnvOf(port, creds) :
             port \in {UnsetNumber, SetTo(<<"a", "b", "c">>)}, creds \in Credentials }

(* ----------------------------- form data ------------------------------ *)

required_fields == <<"name", "email", "project_type", "budget", "description">>

OptionalFields == <<"company", "timeline", "location">>

FormFields == required_fields \o OptionalFields

Range(seq) == {seq[i] : i \in 1..Len(seq)}

\* The raw values one key carries in the url-encoded body, in body order:
\* "" is a blank value (name=), " " is white space only (name=+).
RequiredEntries == {<<>>, <<"">>, <<" ">>, <<"Ada">>, <<"", "Ada">>}

OptionalEntries == {<<>>, <<"ACME">>}

PlainEntry(f) == IF f \in Range(required_fields) THEN <<"Ada">> ELSE <<>>

PlainBody == [f \in Range(FormFields) |-> PlainEntry(f)]

\* The plain form with at most MaxDeviant fields changed ...
DeviantBodies ==
    { b \in [ name : RequiredEntries, email : RequiredEntries,
              project_type : RequiredEntries, budget : RequiredEntries,
              description : RequiredEntries, company : OptionalEntries,
              timeline : OptionalEntries, location : OptionalEntries ] :
        Cardinality({f \in Range(FormFields) : b[f] # PlainEntry(f)}) <= MaxDeviant }

\* ... and the plain form with any set of required keys left out.
AbsentBodies ==
    { [f \in Range(FormFields) |-> IF f \in gone THEN <<>> ELSE PlainEntry(f)] :
        gone \in SUBSET Range(required_fields) }

Bodies == DeviantBodies \cup AbsentBodies

\* parse_qs(text): keep_blank_values is off, so blank values are dropped and a
\* key left without values is not in the result.
parse_qs(b) ==
    LET kept(f) == SelectSeq(b[f], LAMBDA v : v # "")
        keys == {f \in DOMAIN b : kept(f) # <<>>}
    IN  [f \in keys |-> kept(f)]

\* submission[key] = value[0] if value else ''
ExtractFields(form_data) ==
    [key \in DOMAIN form_data |->
        IF form_data[key] # <<>> THEN form_data[key][1] ELSE ""]

\* submission.get(field)
Get(submission, field) ==
    IF field \in DOMAIN submission THEN Str(submission[field]) ELSE PyNone

\* A slip: the missing fields collected in a set and sorted by name.
missing_fields_sorted(submission) ==
    SelectSeq(<<"budget", "description", "email", "name", "project_type">>,
              LAMBDA field : Falsy(Get(submission, field)))

\* A slip: the last required field left out of the list that is checked.
missing_fields_short(submission) ==
    SelectSeq(SubSeq(required_fields, 1, Len(required_fields) - 1),
              LAMBDA field : Falsy(Get(submission, field)))

\* [field for field in required_fields if not submission.get(field)]
missing_fields(submission) ==
    SelectSeq(required_fields, LAMBDA field : Falsy(Get(submission, field)))

(* --------------------------- configuration ---------------------------- *)

config_required_fields == <<"sender_email", "sender_password", "recipient_email">>

\* A slip: a credential counts as missing only when it is None, so one that
\* is set to the empty text passes.
_load_email_config_none_only(e) ==
    LET port == PyInt(GetEnvDefault(e, "SMTP_PORT", DefaultPort))
        config == [ smtp_server     |-> GetEnvDefault(e, "SMTP_SERVER", DefaultServer),
                    smtp_port       |-> port.val,
                    sender_email    |-> GetEnv(e, "SENDER_EMAIL"),
                    sender_password |-> GetEnv(e, "SENDER_PASSWORD"),
                    recipient_email |-> GetEnv(e, "RECIPIENT_EMAIL") ]
        missing == SelectSeq(config_required_fields, LAMBDA field : config[field].isNone)
    IN  IF ~port.ok THEN [raised |-> "ValueError", config |-> PyNone]
        ELSE IF missing # <<>> THEN [raised |-> "", config |-> PyNone]
        ELSE [raised |-> "", config |-> config]

\* _load_email_config: the configuration, None when a credential is missing,
\* or the ValueError of int() on SMTP_PORT, which nothing in it catches.
_load_email_config(e) ==
    LET port == PyInt(GetEnvDefault(e, "SMTP_PORT", DefaultPort))
        config == [ smtp_server     |-> GetEnvDefault(e, "SMTP_SERVER", DefaultServer),
                    smtp_port       |-> port.val,
                    sender_email    |-> GetEnv(e, "SENDER_EMAIL"),
                    sender_password |-> GetEnv(e, "SENDER_PASSWORD"),
                    recipient_email |-> GetEnv(e, "RECIPIENT_EMAIL") ]
        missing == SelectSeq(config_required_fields, LAMBDA field : Falsy(config[field]))
    IN  IF ~port.ok THEN [raised |-> "ValueError", config |-> PyNone]
        ELSE IF missing # <<>> THEN [raised |-> "", config |-> PyNone]
        ELSE [raised |-> "", config |-> config]

(* ------------------------------ responses ----------------------------- *)

NoBody == [kind |-> "none", success |-> FALSE, message |-> ""]

\* json.dumps({'success': success, 'message': message})
JsonBody(success, message) == [kind |-> "json", success |-> success, message |-> message]

HtmlBody(message) == [kind |-> "html", success |-> FALSE, message |-> message]

\* A slip: the override of end_headers missing, the base class's used.
end_headers_base(buffered) == buffered

\* end_headers: the three CORS headers are added to whatever was buffered.
end_headers(buffered) ==
    buffered \o << <<"Access-Control-Allow-Origin", "*">>,
                   <<"Access-Control-Allow-Methods", "GET, POST, OPTIONS">>,
                   <<"Access-Control-Allow-Headers", "Content-Type">> >>

_send_success_response(message) ==
    [ code    |-> 200,
      headers |-> end_headers(<< <<"Content-type", "application/json">>,
                                 <<"Access-Control-Allow-Origin", "*">> >>),
      body    |-> JsonBody(TRUE, message) ]

_send_error_response(message) ==
    [ code    |-> 400,
      headers |-> end_headers(<< <<"Content-type", "application/json">>,
                                 <<"Access-Control-Allow-Origin", "*">> >>),
      body    |-> JsonBody(FALSE, message) ]

\* do_OPTIONS: status, three headers, end_headers, and no body.
OptionsResponse ==
    [ code    |-> 200,
      headers |-> end_headers(<< <<"Access-Control-Allow-Origin", "*">>,
                                 <<"Access-Control-Allow-Methods", "POST, OPTIONS">>,
                                 <<"Access-Control-Allow-Headers", "Content-Type">> >>),
      body    |-> NoBody ]

\* send_error(404, "Not Found") of the base handler, through end_headers.
NotFoundResponse ==
    [ code    |-> 404,
      headers |-> end_headers(<< <<"Connection", "close">>,
                                 <<"Content-Type", "text/html;charset=utf-8">>,
                                 <<"Content-Length", "len(body)">> >>),
      body    |-> HtmlBody("Not Found") ]

MsgMissing(missing) == "Missing required fields: " \o Join(missing, ", ")

MsgSent == "Thank you! Your message has been sent successfully."

MsgFailed == "Failed to send email. Please try again or contact us directly."

MsgReceived == "Thank you! Your message has been received. We'll get back to you soon."

MsgError == "An error occurred. Please try again."

(* ------------------------------ requests ------------------------------ *)

NoHeader == [present |-> FALSE, v |-> <<>>]

Header(v) == [present |-> TRUE, v |-> v]

\* What a client may send.  The body matters only where it is read.
Requests ==
    [method : {"OPTIONS"}, path : {"/submit-form", "/index.html"},
     content_length : {NoHeader}, utf8 : {TRUE}, body : {PlainBody}]
    \cup
    [method : {"POST"}, path : {"/contact"},
     content_length : {Header(<<"4", "2">>)}, utf8 : {TRUE}, body : {PlainBody}]
    \cup
    [method : {"POST"}, path : {"/submit-form"},
     content_length : {NoHeader, Header(<<"x">>)}, utf8 : {TRUE}, body : {PlainBody}]
    \cup
    [method : {"POST"}, path : {"/submit-form"},
     content_length : {Header(<<"4", "2">>)}, utf8 : {FALSE}, body : {PlainBody}]
    \cup
    [method : {"POST"}, path : {"/submit-form"},
     content_length : {Header(<<"4", "2">>)}, utf8 : {TRUE}, body : Bodies]

NoRequest ==
    [method |-> "", path |-> "", content_length |-> NoHeader, utf8 |-> TRUE,
     body |-> PlainBody]

(* ---------------------------- dispatch steps -------------------------- *)

\* smtplib.SMTP(...) as a context manager: connect, then starttls, login and
\* sendmail in the with block, then QUIT when the block is left.
SmtpSteps == <<"connect", "starttls", "login", "sendmail", "quit">>

\* _log_submission: the ten lines of one block, in the order written, each
\* named by its label.
LogLines ==
    <<"==================================================", "Timestamp: ",
      "Name: ", "Email: ", "Company: ", "Project Type: ", "Budget: ",
      "Timeline: ", "Location: ", "Description: ">>

(* -------------------------------- state ------------------------------- *)

VARIABLES
    env,           \* the process environment, fixed for the life of the process
    logFile,       \* form_submissions.log: the lines appended so far
    outbox,        \* messages the SMTP peer accepted from sendmail
    served,        \* requests the server has finished with
    pc,            \* where the handler of the current request stands
    req,           \* the request being handled
    email_config,  \* self.email_config
    submission,    \* the decoded submission
    pending,       \* the response being written
    inTry,         \* control is inside the try of _handle_form_submission
    sockBroken,    \* the client connection no longer takes writes
    wire,          \* what reached the client on this connection
    attempts,      \* the responses the handler started, in order
    fault,         \* the exception that left the handler, "" if none
    smtp,          \* the step of the SMTP session and whether the block raised
    logStep,       \* 0 before open(), k before the k-th write
    reached,       \* the pipeline states this request has passed
    ran,           \* the dispatch variants this request entered
    handed,        \* messages this request handed to the transport
    appended,      \* log lines this request appended
    raisedAt,      \* where the exception the top-level handler caught came from
    smtpRaised     \* the SMTP steps that raised in this request

vars ==
    <<env, logFile, outbox, served, pc, req, email_config, submission, pending,
      inTry, sockBroken, wire, attempts, fault, smtp, logStep, reached, ran,
      handed, appended, raisedAt, smtpRaised>>

process == <<env, logFile, outbox, served>>

NoSubmission == [f \in {} |-> ""]

NoResponse == [code |-> 0, headers |-> <<>>, body |-> NoBody]

NoSmtp == [step |-> 0, failed |-> FALSE]

FreshRequest ==
    /\ req = NoRequest
    /\ email_config = PyNone
    /\ submission = NoSubmission
    /\ pending = NoResponse
    /\ inTry = FALSE
    /\ sockBroken = FALSE
    /\ wire = <<>>
    /\ attempts = <<>>
    /\ fault = ""
    /\ smtp = NoSmtp
    /\ logStep = 0
    /\ reached = {}
    /\ ran = {}
    /\ handed = 0
    /\ appended = 0
    /\ raisedAt = ""
    /\ smtpRaised = {}

\* The server as HTTPServer(('', port), EmailFormHandler) runs it, before
\* the first request.
Init ==
    /\ env \in Environments
    /\ logFile = <<>>
    /\ outbox = 0
    /\ served = 0
    /\ pc = "idle"
    /\ FreshRequest

(* ------------------------------- actions ------------------------------ *)

\* HTTPServer.serve_forever takes the next connection only between handlers.
Accept(r) ==
    /\ pc = "idle"
    /\ served < MaxRequests
    /\ req' = r
    /\ pc' = "construct"
    /\ UNCHANGED <<process, email_config, submission, pending, inTry, sockBroken,
                   wire, attempts, fault, smtp, logStep, reached, ran, handed,
                   appended, raisedAt, smtpRaised>>

\* EmailFormHandler.__init__: the configuration is loaded before the base
\* class reads the request; an exception here leaves through socketserver,
\* which closes the connection.
Construct ==
    /\ pc = "construct"
    /\ LET loaded == _load_email_config(env)
       IN  IF loaded.raised # ""
           THEN /\ fault' = loaded.raised
                /\ pc' = "done"
                /\ UNCHANGED email_config
           ELSE /\ email_config' = loaded.config
                /\ pc' = "handle"
                /\ UNCHANGED fault
    /\ UNCHANGED <<process, req, submission, pending, inTry, sockBroken, wire,
                   attempts, smtp, logStep, reached, ran, handed, appended,
                   raisedAt, smtpRaised>>

do_OPTIONS ==
    /\ pc = "handle"
    /\ req.method = "OPTIONS"
    /\ pending' = OptionsResponse
    /\ attempts' = Append(attempts, OptionsResponse)
    /\ pc' = "respond"
    /\ UNCHANGED <<process, req, email_config, submission, inTry, sockBroken,
                   wire, fault, smtp, logStep, reached, ran, handed, appended,
                   raisedAt, smtpRaised>>

do_POST ==
    /\ pc = "handle"
    /\ req.method = "POST"
    /\ IF req.path = "/submit-form"
       THEN /\ pc' = "form"
            /\ inTry' = TRUE
            /\ UNCHANGED <<pending, attempts>>
       ELSE /\ pending' = NotFoundResponse
            /\ attempts' = Append(attempts, NotFoundResponse)
            /\ pc' = "respond"
            /\ UNCHANGED inTry
    /\ UNCHANGED <<process, req, email_config, submission, sockBroken, wire,
                   fault, smtp, logStep, reached, ran, handed, appended,
                   raisedAt, smtpRaised>>

\* An exception inside the try of _handle_form_submission.
Raise(where) ==
    /\ pc' = "except"
    /\ raisedAt' = where

\* _handle_form_submission up to the validation.  A missing Content-Length
\* is int(None), a TypeError, and other text a ValueError; the read of the
\* body fails when the client resets the connection.
ParseAndValidate ==
    /\ pc = "form"
    /\ \E readOk \in BOOLEAN :
        LET length == req.content_length
            decoded == ExtractFields(parse_qs(req.body))
            missing == missing_fields(decoded)
        IN  IF ~length.present \/ ~PyInt(length.v).ok
            THEN /\ Raise("content-length")
                 /\ UNCHANGED <<submission, pending, attempts, sockBroken, reached>>
            ELSE IF ~readOk
            THEN /\ Raise("read")
                 /\ sockBroken' = TRUE
                 /\ UNCHANGED <<submission, pending, attempts, reached>>
            ELSE IF ~req.utf8
            THEN /\ Raise("decode")
                 /\ UNCHANGED <<submission, pending, attempts, sockBroken, reached>>
            ELSE /\ submission' = decoded
                 /\ UNCHANGED <<sockBroken, raisedAt>>
                 /\ IF missing # <<>>
                    THEN /\ pending' = _send_error_response(MsgMissing(missing))
                         /\ attempts' = Append(attempts, pending')
                         /\ reached' = {"BodyParsed"}
                         /\ pc' = "respond"
                    ELSE /\ reached' = {"BodyParsed", "Validated"}
                         /\ pc' = "dispatch"
                         /\ UNCHANGED <<pending, attempts>>
    /\ UNCHANGED <<process, req, email_config, inTry, wire, fault, smtp, logStep,
                   ran, handed, appended, smtpRaised>>

\* if self.email_config: ... else: ...
Dispatch ==
    /\ pc = "dispatch"
    /\ IF email_config # PyNone
       THEN /\ pc' = "smtp"
            /\ smtp' = [step |-> 1, failed |-> FALSE]
            /\ ran' = ran \cup {"mail"}
       ELSE /\ pc' = "log"
            /\ ran' = ran \cup {"log"}
            /\ UNCHANGED smtp
    /\ UNCHANGED <<process, req, email_config, submission, pending, inTry,
                   sockBroken, wire, attempts, fault, logStep, reached, handed,
                   appended, raisedAt, smtpRaised>>

\* _send_notification_email returns email_sent and the caller picks the response.
MailReturns(email_sent) ==
    /\ pending' = IF email_sent THEN _send_success_response(MsgSent)
                                ELSE _send_error_response(MsgFailed)
    /\ attempts' = Append(attempts, pending')
    /\ smtp' = NoSmtp
    /\ pc' = "respond"

\* The peer answers the current step as expected (smtplib swallows an
\* SMTPServerDisconnected on QUIT, which counts as answered).  The message is
\* with the peer once sendmail returns.
SmtpStepOk ==
    /\ pc = "smtp"
    /\ LET step == SmtpSteps[smtp.step]
       IN  /\ IF step = "sendmail"
              THEN /\ outbox' = outbox + 1
                   /\ handed' = handed + 1
                   /\ reached' = reached \cup {"Dispatched"}
              ELSE UNCHANGED <<outbox, handed, reached>>
           /\ IF step = "quit"
              THEN MailReturns(~smtp.failed)
              ELSE /\ smtp' = [smtp EXCEPT !.step = @ + 1]
                   /\ UNCHANGED <<pending, attempts, pc>>
    /\ UNCHANGED <<env, logFile, served, req, email_config, submission, inTry,
                   sockBroken, wire, fault, logStep, ran, appended, raisedAt,
                   smtpRaised>>

\* A slip: no except clause in _send_notification_email, so that a step that
\* raises is caught by the top-level handler only.
SmtpStepRaisesUncaught ==
    /\ pc = "smtp"
    /\ smtpRaised' = smtpRaised \cup {SmtpSteps[smtp.step]}
    /\ smtp' = NoSmtp
    /\ Raise("mail")
    /\ UNCHANGED <<process, req, email_config, submission, pending, inTry,
                   sockBroken, wire, attempts, fault, logStep, reached, ran,
                   handed, appended>>

\* The current step raises.  Inside the with block the session is left
\* through QUIT; the except clause of _send_notification_email returns False.
SmtpStepRaises ==
    /\ pc = "smtp"
    /\ LET step == SmtpSteps[smtp.step]
       IN  /\ smtpRaised' = smtpRaised \cup {step}
           /\ IF step \in {"connect", "quit"}
              THEN MailReturns(FALSE)
              ELSE /\ smtp' = [step |-> Len(SmtpSteps), failed |-> TRUE]
                   /\ UNCHANGED <<pending, attempts, pc>>
    /\ UNCHANGED <<process, req, email_config, submission, inTry, sockBroken,
                   wire, fault, logStep, reached, ran, handed, appended, raisedAt>>

\* The peer stops answering.  smtplib.SMTP is given no timeout, so the read
\* of the reply never returns.
SmtpPeerHangs ==
    /\ pc = "smtp"
    /\ pc' = "blocked"
    /\ UNCHANGED <<process, req, email_config, submission, pending, inTry,
                   sockBroken, wire, attempts, fault, smtp, logStep, reached,
                   ran, handed, appended, raisedAt, smtpRaised>>

\* _log_submission: open(), then one write per line; leaving the with block
\* returns to the caller, which sends the "received" response.
LogStepOk ==
    /\ pc = "log"
    /\ IF logStep = 0
       THEN /\ logStep' = 1
            /\ UNCHANGED <<logFile, appended, reached, pending, attempts, pc>>
       ELSE /\ logFile' = Append(logFile, LogLines[logStep])
            /\ appended' = appended + 1
            /\ reached' = reached \cup {"Dispatched"}
            /\ IF logStep = Len(LogLines)
               THEN /\ logStep' = 0
                    /\ pending' = _send_success_response(MsgReceived)
                    /\ attempts' = Append(attempts, pending')
                    /\ pc' = "respond"
               ELSE /\ logStep' = logStep + 1
                    /\ UNCHANGED <<pending, attempts, pc>>
    /\ UNCHANGED <<env, outbox, served, req, email_config, submission, inTry,
                   sockBroken, wire, fault, smtp, ran, handed, raisedAt,
                   smtpRaised>>

\* open() or a write raises OSError; _log_submission catches nothing.
LogStepRaises ==
    /\ pc = "log"
    /\ Raise("log")
    /\ logStep' = 0
    /\ UNCHANGED <<process, req, email_config, submission, pending, inTry,
                   sockBroken, wire, attempts, fault, smtp, reached, ran, handed,
                   appended, smtpRaised>>

\* except Exception: _send_error_response("An error occurred. ...")
HandleException ==
    /\ pc = "except"
    /\ pending' = _send_error_response(MsgError)
    /\ attempts' = Append(attempts, pending')
    /\ inTry' = FALSE
    /\ pc' = "respond"
    /\ UNCHANGED <<process, req, email_config, submission, sockBroken, wire,
                   fault, smtp, logStep, reached, ran, handed, appended,
                   raisedAt, smtpRaised>>

HeadPart(response) == [part |-> "head", code |-> response.code, headers |-> response.headers]

BodyPart(response) == [part |-> "body", body |-> response.body]

\* The two socket writes of a response: the flushed headers, then the body.
\* A write on a connection the client has dropped raises, and keeps raising.
SendResponse ==
    /\ pc = "respond"
    /\ \E outcome \in {"sent", "head fails", "body fails"} :
        /\ sockBroken => outcome = "head fails"
        /\ pending.body = NoBody => outcome # "body fails"
        /\ wire' = CASE outcome = "sent" /\ pending.body = NoBody ->
                          Append(wire, HeadPart(pending))
                     [] outcome = "sent" /\ pending.body # NoBody ->
                          wire \o <<HeadPart(pending), BodyPart(pending)>>
                     [] outcome = "body fails" -> Append(wire, HeadPart(pending))
                     [] outcome = "head fails" -> wire
        /\ sockBroken' = (outcome # "sent")
        /\ IF outcome = "sent"
           THEN /\ pc' = "done"
                /\ UNCHANGED <<raisedAt, fault>>
           ELSE IF inTry
           THEN /\ Raise("response")
                /\ UNCHANGED fault
           ELSE /\ fault' = "BrokenPipeError"
                /\ pc' = "done"
                /\ UNCHANGED raisedAt
    /\ pending' = NoResponse
    /\ UNCHANGED <<process, req, email_config, submission, inTry, attempts, smtp,
                   logStep, reached, ran, handed, appended, smtpRaised>>

\* The handler is gone; the server closes the connection and serves the next.
Finish ==
    /\ pc = "done"
    /\ served' = served + 1
    /\ pc' = "idle"
    /\ req' = NoRequest
    /\ email_config' = PyNone
    /\ submission' = NoSubmission
    /\ pending' = NoResponse
    /\ inTry' = FALSE
    /\ sockBroken' = FALSE
    /\ wire' = <<>>
    /\ attempts' = <<>>
    /\ fault' = ""
    /\ smtp' = NoSmtp
    /\ logStep' = 0
    /\ reached' = {}
    /\ ran' = {}
    /\ handed' = 0
    /\ appended' = 0
    /\ raisedAt' = ""
    /\ smtpRaised' = {}
    /\ UNCHANGED <<env, logFile, outbox>>

Next ==
    \/ \E r \in Requests : Accept(r)
    \/ Construct
    \/ do_OPTIONS
    \/ do_POST
    \/ ParseAndValidate
    \/ Dispatch
    \/ SmtpStepOk
    \/ SmtpStepRaises
    \/ SmtpPeerHangs
    \/ LogStepOk
    \/ LogStepRaises
    \/ HandleException
    \/ SendResponse
    \/ Finish

Spec == Init /\ [][Next]_vars

\* Every step but the arrival of a request is the server's own: the handler
\* runs on whenever it can, and what it waits for (the SMTP peer, the file
\* system, the client socket) answers, fails or, for the SMTP peer, hangs.
ServerStep ==
    \/ Construct
    \/ do_OPTIONS
    \/ do_POST
    \/ ParseAndValidate
    \/ Dispatch
    \/ SmtpStepOk
    \/ SmtpStepRaises
    \/ SmtpPeerHangs
    \/ LogStepOk
    \/ LogStepRaises
    \/ HandleException
    \/ SendResponse
    \/ Finish

LiveSpec == Spec /\ WF_vars(ServerStep)

(* ------------------------- vocabulary of the claims ------------------- *)

CanonicalOrder == <<"name", "email", "project_type", "budget", "description">>

\* The handler of the current request has returned or raised.
Over == pc = "done"

SubmitForm == req.method = "POST" /\ req.path = "/submit-form"

Decoded == "BodyParsed" \in reached

\* A key absent from the decoded submission, or carrying the empty text.
IsMissing(f) == f \notin DOMAIN submission \/ submission[f] = ""

MissingInOrder == SelectSeq(CanonicalOrder, IsMissing)

\* text.strip() on the values a field can carry here.
Strip(text) == IF text = " " THEN "" ELSE text

IsBlank(f) == f \notin DOMAIN submission \/ Strip(submission[f]) = ""

\* The connection took every write, and exactly this response went out.
Answered(response) ==
    /\ ~sockBroken
    /\ fault = ""
    /\ wire = IF response.body = NoBody THEN <<HeadPart(response)>>
              ELSE <<HeadPart(response), BodyPart(response)>>

\* The response the handler started first is this one; it is the one the
\* client gets unless the connection dropped.
Replies(response) ==
    /\ attempts # <<>>
    /\ attempts[1] = response
    /\ ~sockBroken => Answered(response)

AllCredentialsSet ==
    \A n \in CredentialNames : env[n].set /\ env[n].v # ""

PortIsNumber ==
    ~env["SMTP_PORT"].set \/ PyInt(env["SMTP_PORT"].v).ok

Heads == {wire[i] : i \in {j \in 1..Len(wire) : wire[j].part = "head"}}

HeaderNames(head) == {head.headers[i][1] : i \in 1..Len(head.headers)}

HasHeader(head, name, value) ==
    \E i \in 1..Len(head.headers) : head.headers[i] = <<name, value>>

Codes == {h.code : h \in Heads}

NoSideEffect == handed = 0 /\ appended = 0

(* -------------------------------- claims ------------------------------ *)

\* C1: a POST /submit-form whose decoded submission lacks a required field
\* (key absent or value empty) is answered 400, success false, with
\* "Missing required fields: " and exactly the missing names, comma-separated,
\* in the order name, email, project_type, budget, description, whatever the
\* mail configuration and the optional fields.
C1_MissingFieldsListed ==
    (Over /\ SubmitForm /\ Decoded /\ MissingInOrder # <<>>) =>
        /\ Replies(_send_error_response(
               "Missing required fields: " \o Join(MissingInOrder, ", ")))
        /\ attempts[1].code = 400
        /\ attempts[1].body.success = FALSE

C1_Witness ==
    /\ Over /\ SubmitForm /\ Decoded
    /\ MissingInOrder = <<"email", "description">>
    /\ email_config # PyNone
    /\ Answered(_send_error_response("Missing required fields: email, description"))

\* C2: in unconfigured mode a POST /submit-form with all required fields is
\* always answered 200 with the "received" message, also when opening or
\* writing form_submissions.log fails.
C2_LogFailureSwallowed ==
    (Over /\ SubmitForm /\ "log" \in ran) =>
        Replies(_send_success_response(MsgReceived))

\* C3: in configured mode a valid submission is answered 200 "sent" when the
\* transport completes without error, and 400 "Failed to send email" when any
\* step of it raises; the error is caught inside the mail variant and never
\* reaches the top-level handler or leaves the handler.
C3_MailOutcome ==
    (Over /\ SubmitForm /\ "mail" \in ran) =>
        /\ smtpRaised = {} => Replies(_send_success_response(MsgSent))
        /\ smtpRaised # {} => Replies(_send_error_response(MsgFailed))
        /\ raisedAt \in {"", "response"}
        /\ \A i \in 1..Len(wire) :
               wire[i].part = "body" => wire[i].body.message # MsgError
        /\ ~sockBroken => fault = ""

C3_Witness ==
    /\ Over /\ SubmitForm /\ "mail" \in ran
    /\ smtpRaised = {"login"}
    /\ Answered(_send_error_response(MsgFailed))

\* C4: a validated submission enters exactly one dispatch variant, the mail
\* variant iff sender_email, sender_password and recipient_email are all set,
\* else the log variant; never both, never the log after a failed mail send,
\* and the loaded configuration stays what it is while the request is handled.
C4_OneVariant ==
    /\ (pc \notin {"idle", "construct"} /\ fault # "ValueError") =>
           (email_config # PyNone <=> AllCredentialsSet)
    /\ ("Validated" \in reached /\ pc # "dispatch") =>
           /\ ran = IF AllCredentialsSet THEN {"mail"} ELSE {"log"}
           /\ "mail" \in ran => appended = 0
           /\ "log" \in ran => handed = 0

C4_Witness ==
    /\ Over /\ "Validated" \in reached
    /\ ran = {"mail"}
    /\ smtpRaised # {}
    /\ appended = 0
    /\ logFile = <<>>

\* C5: with SMTP_PORT set to text that is no number the configuration loader
\* does not crash but yields "unconfigured", so a POST /submit-form is handled
\* and gets a structured response.
C5_BadPortIsUnconfigured ==
    (Over /\ SubmitForm /\ ~PortIsNumber) =>
        /\ fault = ""
        /\ attempts # <<>>

\* C6: any exception raised in the POST /submit-form pipeline is caught at the
\* top level and answered 400 with "An error occurred. Please try again.", and
\* no request ends by an internal fault without a structured JSON response.
\* Stated for the connections the client keeps open: nothing can be answered
\* on a connection that is gone.
C6_EveryFaultAnswered ==
    (Over /\ SubmitForm /\ ~sockBroken) =>
        /\ fault = ""
        /\ \E i \in 1..Len(wire) : wire[i].part = "body" /\ wire[i].body.kind = "json"
        /\ raisedAt # "" => Answered(_send_error_response(MsgError))

\* C7 as stated: a submission is dispatched (mail sent or log written) only if
\* every required field is present and non-empty after trimming white space.
C7_DispatchedOnlyIfNonBlank ==
    "Dispatched" \in reached =>
        \A i \in 1..Len(CanonicalOrder) : ~IsBlank(CanonicalOrder[i])

\* C7 as amended: a submission is dispatched only if every required field is
\* present and non-empty, a value of white space alone counting as present;
\* a required field that is absent or empty fails validation with a 400 and
\* no dispatch side effect.
C7_DispatchedOnlyIfNonEmpty ==
    /\ (ran # {} \/ ~NoSideEffect) =>
           \A i \in 1..Len(CanonicalOrder) :
               /\ ~IsMissing(CanonicalOrder[i])
               /\ \E k \in 1..Len(req.body[CanonicalOrder[i]]) :
                      req.body[CanonicalOrder[i]][k] # ""
    /\ (Decoded /\ MissingInOrder # <<>> /\ pc # "form") =>
           /\ ran = {}
           /\ NoSideEffect
           /\ attempts # <<>> /\ attempts[1].code = 400

C7_Witness ==
    /\ Over /\ Decoded
    /\ Get(submission, "name") = Str(" ")
    /\ appended = Len(LogLines)
    /\ Answered(_send_success_response(MsgReceived))

\* C8: every response that goes out (200, 400, 404, and the 200 preflight)
\* carries Access-Control-Allow-Origin: *, Access-Control-Allow-Methods and
\* Access-Control-Allow-Headers: Content-Type, and the OPTIONS response has
\* no body.
C8_CorsOnEveryResponse ==
    /\ \A h \in Heads :
           /\ HasHeader(h, "Access-Control-Allow-Origin", "*")
           /\ "Access-Control-Allow-Methods" \in HeaderNames(h)
           /\ HasHeader(h, "Access-Control-Allow-Headers", "Content-Type")
    /\ req.method = "OPTIONS" => \A i \in 1..Len(wire) : wire[i].part = "head"
    /\ (Over /\ req.method = "OPTIONS" /\ fault = "") =>
           /\ Len(wire) = 1
           /\ wire[1].code = 200

C8_Witness ==
    /\ Over /\ req.method = "OPTIONS" /\ req.path = "/index.html"
    /\ Len(wire) = 1
    /\ wire[1].code = 200

\* C9: no operation blocks for ever: every accepted request is eventually
\* finished with, also when the SMTP peer accepts the connection and never
\* answers, so that a later request can be served.
C9_EveryRequestEnds == (pc # "idle") ~> Over

\* C10: a 400 on POST /submit-form means no dispatch side effect took effect
\* (no mail handed over, no log line appended), and a 200 means exactly one
\* completed dispatch (one mail, or one block of ten log lines).
C10_OutcomeAtomic ==
    (Over /\ SubmitForm) =>
        /\ 400 \in Codes => NoSideEffect
        /\ 200 \in Codes =>
               \/ handed = 1 /\ appended = 0
               \/ handed = 0 /\ appended = Len(LogLines)

====
